---------------------------- MODULE Spec2Model ----------------------------
(***************************************************************************)
(* Todry (src/src/App.tsx): the task/category repository of one React      *)
(* component, its undo slot and toast, its backup import/export and the    *)
(* switch of the authenticated user.                                       *)
(*                                                                         *)
(* Conventions                                                             *)
(*  - A JavaScript string is the sequence of its characters, so that       *)
(*    trim(), toLowerCase() and includes() are computed, not assumed.      *)
(*  - A value that may be null/undefined is a sequence of length <= 1:     *)
(*    <<>> is null, <<v>> is the value v.                                  *)
(*  - Date.now() is the variable now; every reading that must be fresh     *)
(*    (a user id, a task id) advances it, i.e. two such readings are at    *)
(*    least one millisecond apart.  'task_' + Date.now() and               *)
(*    Date.now().toString(36) are injective in the clock value, and the    *)
(*    model keeps the clock value as the id.                               *)
(*  - One action is one event handler run to completion together with the  *)
(*    render and the effects it triggers (React runs them before the next  *)
(*    event).  AddCategory, AddTask and EditTask drive the bottom sheet as *)
(*    one uninterrupted flow: open, fill in, save, deferred reset; they    *)
(*    leave the model's sheet fields alone, because every open* handler    *)
(*    writes the fields its save reads.  The handlers of the sheet taken   *)
(*    one at a time, with the deferred reset as a step of its own, are     *)
(*    the actions openAddSheet .. SheetReset.                              *)
(***************************************************************************)
EXTENDS Integers, Sequences, FiniteSets, TLC

(***************************************************************************)
(* Bounds of the model.                                                    *)
(***************************************************************************)
\* Tasks that may be created (fresh ids) in one behaviour.
MaxTasks == 1
\* Longest collection the model lets grow (the code has no limit).
MaxLen == 2
\* Accounts that may be registered.
MaxUsers == 2
\* Deferred resets of the sheet that may be pending together.
MaxResets == 2

(***************************************************************************)
(* Strings.                                                                *)
(***************************************************************************)
Null == <<>>

Some(v) == <<v>>

EmptyStr == <<>>

\* The literals of the source.
General == <<"G", "e", "n", "e", "r", "a", "l">>

Personal == <<"P", "e", "r", "s", "o", "n", "a", "l">>

All == <<"A", "l", "l">>

Archive == <<"A", "r", "c", "h", "i", "v", "e">>

Medium == <<"M", "e", "d", "i", "u", "m">>

\* Characters String.prototype.trim() strips (those the inputs use).
Whitespace == {" ", "\t"}

RECURSIVE TrimStart(_)
TrimStart(s) ==
    IF s # <<>> /\ Head(s) \in Whitespace THEN TrimStart(Tail(s)) ELSE s

RECURSIVE TrimEnd(_)
TrimEnd(s) ==
    IF s # <<>> /\ s[Len(s)] \in Whitespace
        THEN TrimEnd(SubSeq(s, 1, Len(s) - 1))
        ELSE s

Trim(s) == TrimEnd(TrimStart(s))

\* JavaScript truthiness of a string / of a nullable string.
TruthyStr(s) == s # EmptyStr

TruthyOpt(o) == o # Null /\ TruthyStr(o[1])

(***************************************************************************)
(* Sequences as JavaScript arrays.                                         *)
(***************************************************************************)
Range(s) == {s[i] : i \in 1..Len(s)}

\* Prepend that puts the element at the end.
PushBack(x, s) == Append(s, x)

Prepend(x, s) == <<x>> \o s

\* Index of the first element of s in the set of indices I, for find().
FirstIndex(I) == CHOOSE i \in I : \A j \in I : i <= j

Ids(ts) == {ts[i].id : i \in 1..Len(ts)}


\* String.prototype.toLowerCase, character by character.
Uppers ==
    << "A", "B", "C", "D", "E", "F", "G", "H", "I", "J", "K", "L", "M",
       "N", "O", "P", "Q", "R", "S", "T", "U", "V", "W", "X", "Y", "Z" >>

Lowers ==
    << "a", "b", "c", "d", "e", "f", "g", "h", "i", "j", "k", "l", "m",
       "n", "o", "p", "q", "r", "s", "t", "u", "v", "w", "x", "y", "z" >>

LowerChar(c) ==
    IF \E i \in 1..Len(Uppers) : Uppers[i] = c
        THEN Lowers[CHOOSE i \in 1..Len(Uppers) : Uppers[i] = c]
        ELSE c

ToLowerCase(s) == [i \in 1..Len(s) |-> LowerChar(s[i])]

\* String.prototype.includes
Includes(s, sub) ==
    \E i \in 0..(Len(s) - Len(sub)) : SubSeq(s, i + 1, i + Len(sub)) = sub

\* String.prototype.charCodeAt for the characters the inputs use.
CharCode(c) ==
    IF \E i \in 1..Len(Uppers) : Uppers[i] = c
        THEN 64 + (CHOOSE i \in 1..Len(Uppers) : Uppers[i] = c)
    ELSE IF \E i \in 1..Len(Lowers) : Lowers[i] = c
        THEN 96 + (CHOOSE i \in 1..Len(Lowers) : Lowers[i] = c)
    ELSE IF c = "\t" THEN 9
    ELSE 32

\* One round of simpleHash: hash = ((hash << 5) - hash) + char; hash = hash & hash,
\* that is 31 * hash + char reduced to a signed 32-bit integer.  The product is
\* formed on 16-bit halves so that no intermediate value leaves 32 bits.
HashStep(hash, char) ==
    LET lo  == hash % 65536
        hi  == (hash \div 65536) % 65536
        lo1 == 31 * lo + char
        hi1 == (31 * hi + (lo1 \div 65536)) % 65536
    IN  (IF hi1 >= 32768 THEN hi1 - 65536 ELSE hi1) * 65536 + (lo1 % 65536)

\* toString(36) is injective; the model keeps the 32-bit integer.
RECURSIVE HashFrom(_, _)
HashFrom(hash, str) ==
    IF str = <<>> THEN hash
    ELSE HashFrom(HashStep(hash, CharCode(Head(str))), Tail(str))

simpleHash(str) == HashFrom(0, str)

(***************************************************************************)
(* State.                                                                  *)
(***************************************************************************)
VARIABLES
    \* localStorage
    users,               \* chatdo_users: the registered accounts
    storage,             \* todry_<id>_*: per user id, null or the four
                         \* stored collections
    \* authentication
    currentUser,         \* null or the signed-in User
    authUsername,
    authPassword,
    authError,
    \* the four collections of the signed-in user
    tasks,
    categories,
    archivedTasks,
    archivedCategories,
    \* view
    activeCategory,
    searchQuery,
    \* toast and undo
    isToastActive,
    toastMessage,
    lastDeletedTask,     \* null or a Task
    lastDeletedCategory, \* null or a category name
    toastTimeoutRef,     \* "null", or the timer it names is "live" / "fired"
    toastTimers,         \* number of toast timers scheduled and not yet run
    \* clock
    now,                 \* the last Date.now() an id was derived from
    \* history (not program state): what the claims speak about
    purgedTasks,         \* ids purged and not imported since
    purgedCategories,    \* names purged and not created or imported since
    lapsed,              \* slots whose RESTORE offer was dismissed or timed out
    recent,              \* the deletion made last, until the collections change again
    taskOwner,           \* task id -> id of the user who created it (0: nobody)
    \* the bottom sheet
    isSheetOpen,
    sheetMode,
    editingTaskId,       \* null or a task id
    sheetText,           \* textInput
    sheetCategory,       \* selectedCategory
    sheetDueDate,        \* selectedDueDate: null (undefined) or a number
    sheetResets,         \* deferred resets of toggleSheet(false) not yet run
    \* the backup the user keeps
    download,            \* null or the JSON text of the last export kept
    exported             \* history: null or the tasks and categories it was taken from

authVars == <<users, currentUser, authUsername, authPassword, authError>>

repoVars == <<tasks, categories, archivedTasks, archivedCategories>>

viewVars == <<activeCategory, searchQuery>>

undoVars == <<lastDeletedTask, lastDeletedCategory>>

toastVars == <<isToastActive, toastMessage, toastTimeoutRef, toastTimers>>

histVars == <<purgedTasks, purgedCategories, lapsed, recent, taskOwner>>

fileVars == <<download, exported>>

sheetVars ==
    <<isSheetOpen, sheetMode, editingTaskId, sheetText, sheetCategory,
      sheetDueDate, sheetResets>>

vars ==
    <<authVars, storage, repoVars, viewVars, undoVars, toastVars, now, histVars,
      fileVars, sheetVars>>

MaxClock == MaxUsers + MaxTasks

UserIds == 1..MaxClock

(***************************************************************************)
(* Inputs.                                                                 *)
(***************************************************************************)
W == <<"W">>

H == <<"H">>

\* What is typed into the sheet for a new space / a new objective.
CategoryInputs == {W, <<"H", " ">>, <<" ">>}

TaskInputs == {<<"a">>, <<" ">>}

\* What is typed into the search box.
SearchInputs == {EmptyStr, <<"A">>, <<"b">>, <<" ">>}

\* What the text of an objective is changed to in the edit sheet.
EditInputs == {<<"b">>, <<" ">>}

\* Credentials typed into the auth form.
Ann == <<"a", "n", "n">>

Bob == <<"b", "o", "b">>

Pass == <<"p", "a", "s", "s">>

UsernameInputs == {Ann, Bob}

PasswordInputs == {Pass}

\* What a visitor of the auth page types or pastes into the two fields: the
\* same name in another case, the name followed by a tab, a blank, and a
\* second password and one that is too short.
AnnUpper == <<"A", "N", "N">>

AnnTab == <<"a", "n", "n", "\t">>

Word == <<"w", "o", "r", "d">>

AuthUsernames == {Ann, AnnUpper, AnnTab, <<" ">>}

AuthPasswords == {Pass, Word, <<"p">>}

\* Two tasks of a backup written in an earlier session (their ids, which are
\* timestamps, lie before this session's clock).
BackupTaskA ==
    [id |-> 0, text |-> <<"z">>, description |-> EmptyStr, completed |-> FALSE,
     category |-> W, priority |-> Medium, dueDate |-> Null, createdAt |-> 0]

BackupTaskB ==
    [id |-> -1, text |-> <<"y">>, description |-> EmptyStr, completed |-> TRUE,
     category |-> EmptyStr, priority |-> Medium, dueDate |-> Null, createdAt |-> -1]

TaskIds == -1..MaxClock

\* A field of the parsed backup: missing, null (falsy) or an array.
Missing == [state |-> "missing", value |-> <<>>]

JsonNull == [state |-> "null", value |-> <<>>]

Array(a) == [state |-> "array", value |-> a]

TaskFields == {Missing, JsonNull, Array(<<>>), Array(<<BackupTaskA, BackupTaskB>>)}

\* A hand-edited backup may name a space "".
CategoryFields == {Missing, JsonNull, Array(<<EmptyStr, W>>)}

\* The file chosen for import: text JSON.parse rejects, the text "null", or
\* an object.
BackupFiles ==
    {[parse |-> "error", tasks |-> Missing, categories |-> Missing],
     [parse |-> "null", tasks |-> Missing, categories |-> Missing]}
    \cup {[parse |-> "object", tasks |-> t, categories |-> c] :
            t \in TaskFields, c \in CategoryFields}

(***************************************************************************)
(* Toast messages: the text and, for `'${cat}' archived`, the space.       *)
(***************************************************************************)
Msg(text) == [text |-> text, cat |-> EmptyStr]

CatMsg(cat, text) == [text |-> text, cat |-> cat]

(***************************************************************************)
(* localStorage texts.                                                     *)
(***************************************************************************)
\* A number-valued property in JSON text: written, or left out because the
\* value was undefined.
NoNumber == [state |-> "missing", value |-> 0]

Number(n) == [state |-> "number", value |-> n]

\* JSON.stringify of one task: dueDate is left out when it is undefined.
JsonOfTask(t) ==
    [t EXCEPT !.dueDate = IF t.dueDate = Null THEN NoNumber ELSE Number(t.dueDate[1])]

\* JSON.parse of one task: a property that is not there reads undefined.
TaskOfJson(j) ==
    [j EXCEPT !.dueDate =
        IF j.dueDate.state = "number" THEN Some(j.dueDate.value) ELSE Null]

\* JSON.stringify / JSON.parse of a list of tasks.
JsonOfTasks(ts) == [i \in 1..Len(ts) |-> JsonOfTask(ts[i])]

TasksOfJson(js) == [i \in 1..Len(js) |-> TaskOfJson(js[i])]

\* The texts under the four keys of one user, and what reading them gives.
StoredText(col) ==
    [tasks |-> JsonOfTasks(col.tasks),
     categories |-> col.categories,
     archivedTasks |-> JsonOfTasks(col.archivedTasks),
     archivedCategories |-> col.archivedCategories]

ParsedText(text) ==
    [tasks |-> TasksOfJson(text.tasks),
     categories |-> text.categories,
     archivedTasks |-> TasksOfJson(text.archivedTasks),
     archivedCategories |-> text.archivedCategories]

\* The useState initialisers of the creation/editing state.
InitSheet ==
    /\ isSheetOpen = FALSE
    /\ sheetMode = "ADD_TASK"
    /\ editingTaskId = Null
    /\ sheetText = EmptyStr
    /\ sheetCategory = Personal
    /\ sheetDueDate = Null
    /\ sheetResets = 0

(***************************************************************************)
(* Initial states.                                                         *)
(***************************************************************************)
\* No deletion is the latest change of the collections.
NoDeletion == [kind |-> "none", task |-> Null, name |-> EmptyStr]

NoCollections ==
    [tasks |-> <<>>, categories |-> <<>>,
     archivedTasks |-> <<>>, archivedCategories |-> <<>>]

\* The state every useState initialiser leaves apart from the session.
InitCommon ==
    /\ authUsername = EmptyStr
    /\ authPassword = EmptyStr
    /\ authError = ""
    /\ tasks = <<>>
    /\ categories = <<>>
    /\ archivedTasks = <<>>
    /\ archivedCategories = <<>>
    /\ activeCategory = All
    /\ searchQuery = EmptyStr
    /\ isToastActive = FALSE
    /\ toastMessage = Msg("Archived successfully")
    /\ lastDeletedTask = Null
    /\ lastDeletedCategory = Null
    /\ toastTimeoutRef = "null"
    /\ toastTimers = 0
    /\ purgedTasks = {}
    /\ purgedCategories = {}
    /\ lapsed = {}
    /\ recent = NoDeletion
    /\ taskOwner = [i \in TaskIds |-> 0]
    /\ download = Null
    /\ exported = Null
    /\ InitSheet

\* First visit: nothing in localStorage, the auth page is shown.
InitFresh ==
    /\ InitCommon
    /\ users = <<>>
    /\ currentUser = Null
    /\ storage = [u \in UserIds |-> Null]
    /\ now = 0

\* The account a session starts with.
Ann1 ==
    [id |-> 1, username |-> Ann, passwordHash |-> simpleHash(Pass), createdAt |-> 1]

\* The page loaded with chatdo_current_user set: a signed-in account that
\* has stored nothing yet; the persisting effects have run once.
Init ==
    /\ InitCommon
    /\ users = <<Ann1>>
    /\ currentUser = Some(Ann1)
    /\ storage = [u \in UserIds |-> IF u = 1 THEN Some(StoredText(NoCollections)) ELSE Null]
    /\ now = 1

\* An objective of an earlier session, as the todry_<id>_tasks key holds it.
StoredTask ==
    [id |-> 0, text |-> <<"a">>, description |-> EmptyStr, completed |-> FALSE,
     category |-> W, priority |-> Medium, dueDate |-> Some(5), createdAt |-> 0]

StoredCollections ==
    [tasks |-> <<StoredTask>>, categories |-> <<W, H>>,
     archivedTasks |-> <<>>, archivedCategories |-> <<>>]

\* The page loaded with chatdo_current_user set and the collections of an
\* earlier session under that user's keys: the useState initialisers read
\* them.
InitStored ==
    /\ authUsername = EmptyStr
    /\ authPassword = EmptyStr
    /\ authError = ""
    /\ users = <<Ann1>>
    /\ currentUser = Some(Ann1)
    /\ storage = [u \in UserIds |-> IF u = 1 THEN Some(StoredText(StoredCollections)) ELSE Null]
    /\ tasks = StoredCollections.tasks
    /\ categories = StoredCollections.categories
    /\ archivedTasks = StoredCollections.archivedTasks
    /\ archivedCategories = StoredCollections.archivedCategories
    /\ activeCategory = All
    /\ searchQuery = EmptyStr
    /\ isToastActive = FALSE
    /\ toastMessage = Msg("Archived successfully")
    /\ lastDeletedTask = Null
    /\ lastDeletedCategory = Null
    /\ toastTimeoutRef = "null"
    /\ toastTimers = 0
    /\ now = 1
    /\ purgedTasks = {}
    /\ purgedCategories = {}
    /\ lapsed = {}
    /\ recent = NoDeletion
    /\ taskOwner = [i \in TaskIds |-> 0]
    /\ download = Null
    /\ exported = Null
    /\ InitSheet

(***************************************************************************)
(* Effects.                                                                *)
(***************************************************************************)
LoggedIn == currentUser # Null

\* The persisting effects with keys that do not name the user: every
\* account's collections are overwritten.
PersistUnkeyed ==
    storage' =
        IF currentUser' = Null THEN storage
        ELSE [u \in UserIds |->
                Some(StoredText([tasks |-> tasks', categories |-> categories',
                                 archivedTasks |-> archivedTasks',
                                 archivedCategories |-> archivedCategories']))]

\* The four persisting effects: after the render that follows a handler the
\* collections are written under the signed-in user's keys.
Persist ==
    storage' =
        IF currentUser' = Null THEN storage
        ELSE [storage EXCEPT ![currentUser'[1].id] =
                Some(StoredText([tasks |-> tasks', categories |-> categories',
                                 archivedTasks |-> archivedTasks',
                                 archivedCategories |-> archivedCategories']))]

\* getInitialTasks and its three siblings for user u: the stored value, or
\* the empty default when the key is absent.
Stored(u) ==
    IF storage[u.id] = Null THEN NoCollections ELSE ParsedText(storage[u.id][1])

\* The reload effect: the four collections after currentUser became cu.
Reloaded(cu) == IF cu = Null THEN NoCollections ELSE Stored(cu[1])

(***************************************************************************)
(* Derived data.                                                           *)
(***************************************************************************)
MatchesFilter(t) ==
    /\ activeCategory = All \/ t.category = activeCategory
    /\ Includes(ToLowerCase(t.text), ToLowerCase(searchQuery))

filteredTasks == SelectSeq(tasks, MatchesFilter)

\* A JavaScript number that is a quotient of integers, in lowest terms;
\* rounding to a double is not modelled.
RECURSIVE Gcd(_, _)
Gcd(a, b) == IF b = 0 THEN a ELSE Gcd(b, a % b)

Quotient(a, b) == [num |-> a \div Gcd(a, b), den |-> b \div Gcd(a, b)]

Zero == [num |-> 0, den |-> 1]

\* q * m
Times(q, m) == Quotient(q.num * m, q.den)

\* categoryStats with the completed tasks counted over every space.
categoryStatsOverAll ==
    [i \in 1..Len(categories) |->
        LET InCat(t) == t.category = categories[i]
            Done(t) == t.completed
            catTasks == SelectSeq(tasks, InCat)
            completed == Len(SelectSeq(tasks, Done))
        IN  [name |-> categories[i],
             count |-> Len(catTasks),
             progress |-> IF Len(catTasks) = 0 THEN Zero
                          ELSE Times(Quotient(completed, Len(catTasks)), 100)]]

categoryStats ==
    [i \in 1..Len(categories) |->
        LET InCat(t) == t.category = categories[i]
            Done(t) == t.completed
            catTasks == SelectSeq(tasks, InCat)
            completed == Len(SelectSeq(catTasks, Done))
        IN  [name |-> categories[i],
             count |-> Len(catTasks),
             progress |-> IF Len(catTasks) = 0 THEN Zero
                          ELSE Times(Quotient(completed, Len(catTasks)), 100)]]

\* The task list is rendered unless the archive view is.
ShowsTaskList == LoggedIn /\ activeCategory # Archive

ShowsArchive == LoggedIn /\ activeCategory = Archive

(***************************************************************************)
(* The toast timer.                                                        *)
(***************************************************************************)
\* if (toastTimeoutRef.current) clearTimeout(toastTimeoutRef.current);
\* toastTimeoutRef.current = setTimeout(...): the timers pending afterwards.
\* The timers pending if the timer before were left to run.
RescheduledUncleared(ref, n) == n + 1

Rescheduled(ref, n) == (IF ref = "live" THEN n - 1 ELSE n) + 1

\* setToastMessage(msg); setIsToastActive(true); and the timer rescheduled.
ShowToast(msg) ==
    /\ toastMessage' = msg
    /\ isToastActive' = TRUE
    /\ toastTimers' = Rescheduled(toastTimeoutRef, toastTimers)
    /\ toastTimeoutRef' = "live"

\* A pending timer runs () => setIsToastActive(false): the one the ref names
\* or one scheduled earlier and never cleared.
ToastTimeout ==
    /\ toastTimers > 0
    /\ \E named \in BOOLEAN :
        /\ named => toastTimeoutRef = "live"
        /\ ~named => toastTimers > (IF toastTimeoutRef = "live" THEN 1 ELSE 0)
        /\ toastTimeoutRef' = IF named THEN "fired" ELSE toastTimeoutRef
    /\ toastTimers' = toastTimers - 1
    /\ isToastActive' = FALSE
    /\ lapsed' = IF isToastActive
                    THEN lapsed \cup {k \in {"task", "category"} :
                            \/ k = "task" /\ lastDeletedTask # Null
                            \/ k = "category" /\ lastDeletedCategory # Null}
                    ELSE lapsed
    /\ UNCHANGED <<fileVars, sheetVars>>
    /\ UNCHANGED <<authVars, storage, repoVars, viewVars, undoVars, toastMessage,
                   now, purgedTasks, purgedCategories, recent, taskOwner>>

\* The toast's close button, or Escape with no sheet open.
DismissToast ==
    /\ isToastActive
    /\ isToastActive' = FALSE
    /\ lapsed' = lapsed \cup {k \in {"task", "category"} :
                    \/ k = "task" /\ lastDeletedTask # Null
                    \/ k = "category" /\ lastDeletedCategory # Null}
    /\ UNCHANGED <<fileVars, sheetVars>>
    /\ UNCHANGED <<authVars, storage, repoVars, viewVars, undoVars, toastMessage,
                   toastTimeoutRef, toastTimers, now, purgedTasks,
                   purgedCategories, recent, taskOwner>>


(***************************************************************************)
(* Saving from the bottom sheet.                                           *)
(***************************************************************************)
\* openAddSheet: setSelectedCategory(activeCategory === 'All' ? 'Personal'
\* : activeCategory)
DefaultSelectedCategory == IF activeCategory = All THEN Personal ELSE activeCategory

\* The spaces the sheet lets a task be assigned to: the preselected one or
\* one of the pills, which are the active categories.
SelectableCategories == {DefaultSelectedCategory} \cup Range(categories)

TasksCreated == Cardinality({i \in TaskIds : taskOwner[i] # 0})

NewTask(text, category, stamp) ==
    [id |-> stamp, text |-> Trim(text), description |-> Trim(EmptyStr),
     completed |-> FALSE, category |-> category, priority |-> Medium,
     dueDate |-> Null, createdAt |-> stamp]

\* handleSave, sheetMode ADD_CATEGORY: the categories afterwards.
WithCategory(cs, textInput) ==
    IF Trim(textInput) \in Range(cs) THEN cs ELSE Append(cs, Trim(textInput))

\* openAddCategorySheet, typing textInput, handleSave.
AddCategory(textInput) ==
    /\ LoggedIn
    /\ Len(categories) < MaxLen
    /\ categories' =
        IF ~TruthyStr(Trim(textInput)) THEN categories
        ELSE WithCategory(categories, textInput)
    /\ purgedCategories' =
        IF Len(categories') > Len(categories)
            THEN purgedCategories \ {Trim(textInput)}
            ELSE purgedCategories
    /\ recent' = IF Len(categories') > Len(categories) THEN NoDeletion ELSE recent
    /\ UNCHANGED <<fileVars, sheetVars>>
    /\ UNCHANGED <<authVars, tasks, archivedTasks, archivedCategories, viewVars,
                   undoVars, toastVars, now, purgedTasks, lapsed, taskOwner>>
    /\ Persist

\* openAddSheet, typing textInput, choosing selectedCategory, handleSave with
\* sheetMode ADD_TASK.
AddTask(textInput, selectedCategory) ==
    /\ LoggedIn
    /\ selectedCategory \in SelectableCategories
    /\ TasksCreated < MaxTasks
    /\ Len(tasks) < MaxLen
    /\ IF ~TruthyStr(Trim(textInput))
        THEN UNCHANGED <<tasks, now, taskOwner, recent>>
        ELSE /\ tasks' = Prepend(NewTask(textInput, selectedCategory, now + 1), tasks)
             /\ now' = now + 1
             /\ taskOwner' = [taskOwner EXCEPT ![now + 1] = currentUser[1].id]
             /\ recent' = NoDeletion
    /\ UNCHANGED <<fileVars, sheetVars>>
    /\ UNCHANGED <<authVars, categories, archivedTasks, archivedCategories,
                   viewVars, undoVars, toastVars, purgedTasks, purgedCategories,
                   lapsed>>
    /\ Persist

(***************************************************************************)
(* Tasks.                                                                  *)
(***************************************************************************)
\* prev.map(t => t.id === id ? {...t, completed: !t.completed} : t)
Toggled(ts, id) ==
    [i \in 1..Len(ts) |->
        IF ts[i].id = id THEN [ts[i] EXCEPT !.completed = ~@] ELSE ts[i]]

toggleComplete(id) ==
    /\ ShowsTaskList
    /\ id \in Ids(filteredTasks)
    /\ tasks' = Toggled(tasks, id)
    /\ recent' = NoDeletion
    /\ UNCHANGED <<fileVars, sheetVars>>
    /\ UNCHANGED <<authVars, categories, archivedTasks, archivedCategories,
                   viewVars, undoVars, toastVars, now, purgedTasks,
                   purgedCategories, lapsed, taskOwner>>
    /\ Persist

\* tasks.find(t => t.id === id)
FindTask(ts, id) ==
    LET hits == {i \in 1..Len(ts) : ts[i].id = id}
    IN  IF hits = {} THEN Null ELSE Some(ts[FirstIndex(hits)])

\* WithoutTask with the text as the key: every task that reads like the one
\* with this id goes.
WithoutTaskByText(ts, id) ==
    LET Other(t) == \A i \in 1..Len(ts) : ts[i].id = id => t.text # ts[i].text
    IN  SelectSeq(ts, Other)

\* prev.filter(t => t.id !== id)
WithoutTask(ts, id) ==
    LET Other(t) == t.id # id
    IN  SelectSeq(ts, Other)

\* Due dates the pickers hand over (startOfDay(..).getTime()).
DueDates == {7}

\* Edited with the task built afresh, as a new task is, instead of spread
\* from the one edited.
EditedAfresh(ts, id, textInput, selectedCategory, selectedDueDate) ==
    [i \in 1..Len(ts) |->
        IF ts[i].id = id
            THEN [ts[i] EXCEPT !.text = Trim(textInput),
                               !.description = Trim(@),
                               !.category = selectedCategory,
                               !.dueDate = selectedDueDate,
                               !.completed = FALSE]
            ELSE ts[i]]

\* handleSave, sheetMode EDIT_TASK: the tasks afterwards.  The description
\* and the priority are the ones openEditSheet copied from the task.
Edited(ts, id, textInput, selectedCategory, selectedDueDate) ==
    [i \in 1..Len(ts) |->
        IF ts[i].id = id
            THEN [ts[i] EXCEPT !.text = Trim(textInput),
                               !.description = Trim(@),
                               !.category = selectedCategory,
                               !.dueDate = selectedDueDate]
            ELSE ts[i]]

\* openEditSheet(task) on a listed task, changing the inputs, handleSave.
EditTask(id, textInput, selectedCategory, selectedDueDate) ==
    /\ ShowsTaskList
    /\ id \in Ids(filteredTasks)
    /\ selectedCategory \in {FindTask(tasks, id)[1].category} \cup Range(categories)
    /\ selectedDueDate \in {FindTask(tasks, id)[1].dueDate} \cup {Some(d) : d \in DueDates}
    /\ tasks' = IF TruthyStr(Trim(textInput))
                    THEN Edited(tasks, id, textInput, selectedCategory, selectedDueDate)
                    ELSE tasks
    /\ recent' = IF tasks' = tasks THEN recent ELSE NoDeletion
    /\ UNCHANGED <<fileVars, sheetVars>>
    /\ UNCHANGED <<authVars, categories, archivedTasks, archivedCategories,
                   viewVars, undoVars, toastVars, now, purgedTasks,
                   purgedCategories, lapsed, taskOwner>>
    /\ Persist

\* prev.map(t => t.id === taskId ? {...t, dueDate: newDate} : t)
Dated(ts, taskId, newDate) ==
    [i \in 1..Len(ts) |->
        IF ts[i].id = taskId THEN [ts[i] EXCEPT !.dueDate = Some(newDate)] ELSE ts[i]]

\* handleListDateClick(task) on the date button of a listed task, which is
\* rendered when the task has a due date, and the picker's onChange.
updateTaskDate(taskId, newDate) ==
    /\ ShowsTaskList
    /\ taskId \in Ids(filteredTasks)
    /\ FindTask(tasks, taskId)[1].dueDate # Null
    /\ tasks' = Dated(tasks, taskId, newDate)
    /\ recent' = IF tasks' = tasks THEN recent ELSE NoDeletion
    /\ UNCHANGED <<fileVars, sheetVars>>
    /\ UNCHANGED <<authVars, categories, archivedTasks, archivedCategories,
                   viewVars, undoVars, toastVars, now, purgedTasks,
                   purgedCategories, lapsed, taskOwner>>
    /\ Persist

\* The delete button of a listed task; the handler is also modelled for an
\* id no active task has, where tasks.find() finds nothing.
deleteTask(id) ==
    /\ \/ ShowsTaskList /\ id \in Ids(filteredTasks)
       \/ LoggedIn /\ id \notin Ids(tasks)
    /\ Len(archivedTasks) < MaxLen
    /\ LET taskToDelete == FindTask(tasks, id)
       IN  IF taskToDelete # Null
            THEN /\ archivedTasks' = Prepend(taskToDelete[1], archivedTasks)
                 /\ tasks' = WithoutTask(tasks, id)
                 /\ lastDeletedTask' = taskToDelete
                 /\ ShowToast(Msg("Task archived"))
                 /\ lapsed' = lapsed \ {"task"}
                 /\ recent' = [kind |-> "task", task |-> taskToDelete, name |-> EmptyStr]
            ELSE UNCHANGED <<archivedTasks, tasks, lastDeletedTask, toastVars,
                             lapsed, recent>>
    /\ UNCHANGED <<fileVars, sheetVars>>
    /\ UNCHANGED <<authVars, categories, archivedCategories, viewVars,
                   lastDeletedCategory, now, purgedTasks, purgedCategories,
                   taskOwner>>
    /\ Persist

\* The RESTORE button of the toast, rendered while lastDeletedTask or
\* lastDeletedCategory is truthy.
RestoreOffered ==
    /\ LoggedIn
    /\ isToastActive
    /\ lastDeletedTask # Null \/ TruthyOpt(lastDeletedCategory)

undoDelete ==
    /\ RestoreOffered
    /\ IF lastDeletedTask # Null
        THEN /\ Len(tasks) < MaxLen
             /\ archivedTasks' = WithoutTask(archivedTasks, lastDeletedTask[1].id)
             /\ tasks' = Prepend(lastDeletedTask[1], tasks)
             /\ lastDeletedTask' = Null
             /\ isToastActive' = FALSE
             /\ lapsed' = lapsed \ {"task"}
             /\ UNCHANGED <<categories, archivedCategories, lastDeletedCategory>>
        ELSE /\ Len(categories) < MaxLen
             /\ archivedCategories' =
                    LET Other(c) == c # lastDeletedCategory[1]
                    IN  SelectSeq(archivedCategories, Other)
             /\ categories' = Append(categories, lastDeletedCategory[1])
             /\ lastDeletedCategory' = Null
             /\ isToastActive' = FALSE
             /\ lapsed' = lapsed \ {"category"}
             /\ UNCHANGED <<tasks, archivedTasks, lastDeletedTask>>
    /\ recent' = NoDeletion
    /\ UNCHANGED <<fileVars, sheetVars>>
    /\ UNCHANGED <<authVars, viewVars, toastMessage, toastTimeoutRef, toastTimers,
                   now, purgedTasks, purgedCategories, taskOwner>>
    /\ Persist

(***************************************************************************)
(* Categories.                                                             *)
(***************************************************************************)
\* categories.find(c => c !== cat) || 'General'
FallbackCategory(cs, cat) ==
    LET others == {i \in 1..Len(cs) : cs[i] # cat}
        found == IF others = {} THEN Null ELSE Some(cs[FirstIndex(others)])
    IN  IF TruthyOpt(found) THEN found[1] ELSE General

\* prev.filter(c => c !== cat)
WithoutCategory(cs, cat) ==
    LET Other(c) == c # cat
    IN  SelectSeq(cs, Other)

\* prev.map(t => t.category === cat ? {...t, category: fallbackCategory} : t)
Reassigned(ts, cat, fallbackCategory) ==
    [i \in 1..Len(ts) |->
        IF ts[i].category = cat
            THEN [ts[i] EXCEPT !.category = fallbackCategory]
            ELSE ts[i]]

\* Dragging the card of an active space past the threshold.
deleteCategory(cat) ==
    /\ LoggedIn
    /\ cat \in Range(categories)
    /\ Len(archivedCategories) < MaxLen
    /\ archivedCategories' = Prepend(cat, archivedCategories)
    /\ lastDeletedCategory' = Some(cat)
    /\ categories' = WithoutCategory(categories, cat)
    /\ tasks' = Reassigned(tasks, cat, FallbackCategory(categories, cat))
    /\ activeCategory' = IF activeCategory = cat THEN All ELSE activeCategory
    /\ ShowToast(CatMsg(cat, "'${cat}' archived"))
    /\ lapsed' = lapsed \ {"category"}
    /\ recent' = [kind |-> "category", task |-> Null, name |-> cat]
    /\ UNCHANGED <<fileVars, sheetVars>>
    /\ UNCHANGED <<authVars, archivedTasks, searchQuery, lastDeletedTask, now,
                   purgedTasks, purgedCategories, taskOwner>>
    /\ Persist

(***************************************************************************)
(* The archive view.                                                       *)
(***************************************************************************)
restoreTaskFromArchive(i) ==
    /\ ShowsArchive
    /\ i \in 1..Len(archivedTasks)
    /\ Len(tasks) < MaxLen
    /\ archivedTasks' = WithoutTask(archivedTasks, archivedTasks[i].id)
    /\ tasks' = Prepend(archivedTasks[i], tasks)
    /\ ShowToast(Msg("Task restored"))
    /\ recent' = NoDeletion
    /\ UNCHANGED <<fileVars, sheetVars>>
    /\ UNCHANGED <<authVars, categories, archivedCategories, viewVars, undoVars,
                   now, purgedTasks, purgedCategories, lapsed, taskOwner>>
    /\ Persist

restoreCategoryFromArchive(cat) ==
    /\ ShowsArchive
    /\ cat \in Range(archivedCategories)
    /\ Len(categories) < MaxLen
    /\ archivedCategories' = WithoutCategory(archivedCategories, cat)
    /\ categories' = Append(categories, cat)
    /\ ShowToast(CatMsg(cat, "'${cat}' restored"))
    /\ recent' = NoDeletion
    /\ UNCHANGED <<fileVars, sheetVars>>
    /\ UNCHANGED <<authVars, tasks, archivedTasks, viewVars, undoVars, now,
                   purgedTasks, purgedCategories, lapsed, taskOwner>>
    /\ Persist

permanentlyDeleteTask(id) ==
    /\ ShowsArchive
    /\ id \in Ids(archivedTasks)
    /\ archivedTasks' = WithoutTask(archivedTasks, id)
    /\ ShowToast(Msg("Permanently deleted"))
    /\ purgedTasks' = purgedTasks \cup {id}
    /\ recent' = NoDeletion
    /\ UNCHANGED <<fileVars, sheetVars>>
    /\ UNCHANGED <<authVars, tasks, categories, archivedCategories, viewVars,
                   undoVars, now, purgedCategories, lapsed, taskOwner>>
    /\ Persist

permanentlyDeleteCategory(cat) ==
    /\ ShowsArchive
    /\ cat \in Range(archivedCategories)
    /\ archivedCategories' = WithoutCategory(archivedCategories, cat)
    /\ ShowToast(Msg("Permanently deleted"))
    /\ purgedCategories' = purgedCategories \cup {cat}
    /\ recent' = NoDeletion
    /\ UNCHANGED <<fileVars, sheetVars>>
    /\ UNCHANGED <<authVars, tasks, categories, archivedTasks, viewVars, undoVars,
                   now, purgedTasks, lapsed, taskOwner>>
    /\ Persist

\* A space's card, the View All button, the Archive button.
setActiveCategory(value) ==
    /\ LoggedIn
    /\ value \in {All, Archive} \cup Range(categories)
    /\ activeCategory' = value
    /\ UNCHANGED <<fileVars, sheetVars>>
    /\ UNCHANGED <<authVars, storage, repoVars, searchQuery, undoVars, toastVars,
                   now, histVars>>


\* The search box.
setSearchQuery(value) ==
    /\ LoggedIn
    /\ activeCategory # Archive
    /\ searchQuery' = value
    /\ UNCHANGED <<fileVars, sheetVars>>
    /\ UNCHANGED <<authVars, storage, repoVars, activeCategory, undoVars, toastVars,
                   now, histVars>>

\* The orders dragging can give the rendered list: Reorder.Group hands
\* onReorder its values in the new order.
Reorderings(ts) ==
    {[i \in 1..Len(ts) |-> ts[p[i]]] :
        p \in {q \in [1..Len(ts) -> 1..Len(ts)] :
                    \A i, j \in 1..Len(ts) : q[i] = q[j] => i = j}}

\* Reordered with the test on the view left out.
ReorderedAlways(newOrder) == newOrder

\* if (activeCategory === 'All' && !searchQuery) setTasks(newOrder)
Reordered(newOrder) ==
    IF activeCategory = All /\ ~TruthyStr(searchQuery) THEN newOrder ELSE tasks

\* onReorder of the task list's Reorder.Group.
onReorder(newOrder) ==
    /\ ShowsTaskList
    /\ newOrder \in Reorderings(filteredTasks)
    /\ tasks' = Reordered(newOrder)
    /\ recent' = IF tasks' = tasks THEN recent ELSE NoDeletion
    /\ UNCHANGED <<fileVars, sheetVars>>
    /\ UNCHANGED <<authVars, categories, archivedTasks, archivedCategories,
                   viewVars, undoVars, toastVars, now, purgedTasks,
                   purgedCategories, lapsed, taskOwner>>
    /\ Persist

(***************************************************************************)
(* The bottom sheet, one handler at a time.                                *)
(***************************************************************************)
\* toggleSheet(show): closing schedules the deferred reset and cancels none.
toggleSheet(show) ==
    /\ isSheetOpen' = show
    /\ show \/ sheetResets < MaxResets
    /\ sheetResets' = IF show THEN sheetResets ELSE sheetResets + 1

\* What a handler of the sheet leaves alone when it saves nothing.
SheetOnly ==
    UNCHANGED <<authVars, storage, repoVars, viewVars, undoVars, toastVars, now,
                histVars, fileVars>>

\* The + button, or the key n.
openAddSheet ==
    /\ ShowsTaskList
    /\ sheetMode' = "ADD_TASK"
    /\ editingTaskId' = Null
    /\ sheetText' = EmptyStr
    /\ sheetDueDate' = Null
    /\ sheetCategory' = DefaultSelectedCategory
    /\ toggleSheet(TRUE)
    /\ SheetOnly

\* The Edit Objective button of a listed task.
openEditSheet(id) ==
    /\ ShowsTaskList
    /\ id \in Ids(filteredTasks)
    /\ sheetMode' = "EDIT_TASK"
    /\ editingTaskId' = Some(id)
    /\ sheetText' = FindTask(tasks, id)[1].text
    /\ sheetDueDate' = FindTask(tasks, id)[1].dueDate
    /\ sheetCategory' = FindTask(tasks, id)[1].category
    /\ toggleSheet(TRUE)
    /\ SheetOnly

\* A click on a listed task.
openViewSheet(id) ==
    /\ ShowsTaskList
    /\ id \in Ids(filteredTasks)
    /\ sheetMode' = "VIEW_TASK"
    /\ editingTaskId' = Some(id)
    /\ sheetText' = FindTask(tasks, id)[1].text
    /\ sheetDueDate' = FindTask(tasks, id)[1].dueDate
    /\ sheetCategory' = FindTask(tasks, id)[1].category
    /\ toggleSheet(TRUE)
    /\ SheetOnly

\* The add-space button of the sidebar.
openAddCategorySheet ==
    /\ LoggedIn
    /\ sheetMode' = "ADD_CATEGORY"
    /\ sheetText' = EmptyStr
    /\ toggleSheet(TRUE)
    /\ UNCHANGED <<editingTaskId, sheetCategory, sheetDueDate>>
    /\ SheetOnly

\* Typing into the sheet's input, which the details view does not render.
setTextInput(value) ==
    /\ isSheetOpen
    /\ sheetMode # "VIEW_TASK"
    /\ sheetText' = value
    /\ UNCHANGED <<isSheetOpen, sheetMode, editingTaskId, sheetCategory,
                   sheetDueDate, sheetResets>>
    /\ SheetOnly

\* Escape, the overlay or the close button: toggleSheet(false).
closeSheet ==
    /\ isSheetOpen
    /\ toggleSheet(FALSE)
    /\ UNCHANGED <<sheetMode, editingTaskId, sheetText, sheetCategory, sheetDueDate>>
    /\ SheetOnly

\* The deferred reset of a toggleSheet(false), 300 ms after it.
SheetReset ==
    /\ sheetResets > 0
    /\ sheetResets' = sheetResets - 1
    /\ editingTaskId' = Null
    /\ sheetText' = EmptyStr
    /\ sheetDueDate' = Null
    /\ UNCHANGED <<isSheetOpen, sheetMode, sheetCategory>>
    /\ SheetOnly

\* handleSave: the sheet's button, Enter in its input, or Ctrl+Enter while
\* the sheet is open.
handleSave ==
    /\ LoggedIn
    /\ isSheetOpen
    /\ IF ~TruthyStr(Trim(sheetText))
        THEN UNCHANGED <<repoVars, now, taskOwner, recent, sheetVars>>
        ELSE /\ IF sheetMode = "ADD_CATEGORY"
                    THEN /\ Len(categories) < MaxLen
                         /\ categories' = WithCategory(categories, sheetText)
                         /\ UNCHANGED <<tasks, now, taskOwner>>
                ELSE IF sheetMode = "EDIT_TASK" /\ editingTaskId # Null
                    THEN /\ tasks' = Edited(tasks, editingTaskId[1], sheetText,
                                            sheetCategory, sheetDueDate)
                         /\ UNCHANGED <<categories, now, taskOwner>>
                    ELSE /\ TasksCreated < MaxTasks
                         /\ Len(tasks) < MaxLen
                         /\ tasks' =
                                Prepend([NewTask(sheetText, sheetCategory, now + 1)
                                            EXCEPT !.dueDate = sheetDueDate], tasks)
                         /\ now' = now + 1
                         /\ taskOwner' = [taskOwner EXCEPT ![now + 1] = currentUser[1].id]
                         /\ UNCHANGED categories
             /\ recent' = IF tasks' = tasks /\ categories' = categories
                            THEN recent ELSE NoDeletion
             /\ toggleSheet(FALSE)
             /\ UNCHANGED <<archivedTasks, archivedCategories, sheetMode,
                            editingTaskId, sheetText, sheetCategory, sheetDueDate>>
    /\ purgedCategories' =
        IF Len(categories') > Len(categories)
            THEN purgedCategories \ {Trim(sheetText)}
            ELSE purgedCategories
    /\ UNCHANGED <<authVars, viewVars, undoVars, toastVars, purgedTasks, lapsed,
                   fileVars>>
    /\ Persist

(***************************************************************************)
(* Backup.                                                                 *)
(***************************************************************************)
\* JSON.stringify(data, null, 2) with data = {tasks, categories, exportedAt}.
Stringify(ts, cs) ==
    [tasks |-> [i \in 1..Len(ts) |-> JsonOfTask(ts[i])], categories |-> cs]

\* JSON.parse of a text exportTasks wrote.
Parse(text) ==
    [parse |-> "object",
     tasks |-> Array([i \in 1..Len(text.tasks) |-> TaskOfJson(text.tasks[i])]),
     categories |-> Array(text.categories)]

\* exportTasks; keep says whether the user keeps the file the browser saved.
exportTasks(keep) ==
    /\ LoggedIn
    /\ ShowToast(Msg("Backup saved!"))
    /\ download' = IF keep THEN Some(Stringify(tasks, categories)) ELSE download
    /\ exported' =
        IF keep THEN Some([tasks |-> tasks, categories |-> categories]) ELSE exported
    /\ UNCHANGED sheetVars
    /\ UNCHANGED <<authVars, storage, repoVars, viewVars, undoVars, now, histVars>>

\* Imported with the test for a field left out: a field that is not an array
\* empties the collection.
ImportedOrCleared(field, current) == IF field.state = "array" THEN field.value ELSE <<>>

\* Imported with an empty array taken for a falsy value.
ImportedUnlessEmpty(field, current) ==
    IF field.state = "array" /\ field.value # <<>> THEN field.value ELSE current

\* if (data.field) setX(data.field): the collection afterwards.
Imported(field, current) == IF field.state = "array" THEN field.value ELSE current

\* JSON.parse throws on malformed text; data.tasks throws on data === null.
Throws(file) == file.parse \in {"error", "null"}

\* ImportResult with a catch that starts over from an empty collection.
ImportResultOrReset(file, field, current) ==
    IF Throws(file) THEN <<>> ELSE Imported(field, current)

\* try { .. } catch { .. }: the collection after the handler.
ImportResult(file, field, current) ==
    IF Throws(file) THEN current ELSE Imported(field, current)

\* reader.onload of importTasks.
importTasks(file) ==
    /\ LoggedIn
    /\ tasks' = ImportResult(file, file.tasks, tasks)
    /\ categories' = ImportResult(file, file.categories, categories)
    /\ ShowToast(IF Throws(file) THEN Msg("Invalid backup file")
                 ELSE Msg("Backup restored!"))
    /\ purgedTasks' =
        IF ~Throws(file) /\ file.tasks.state = "array"
            THEN purgedTasks \ Ids(file.tasks.value)
            ELSE purgedTasks
    /\ purgedCategories' =
        IF ~Throws(file) /\ file.categories.state = "array"
            THEN purgedCategories \ Range(file.categories.value)
            ELSE purgedCategories
    /\ recent' = IF Throws(file) THEN recent ELSE NoDeletion
    /\ UNCHANGED <<fileVars, sheetVars>>
    /\ UNCHANGED <<authVars, archivedTasks, archivedCategories, viewVars, undoVars,
                   now, lapsed, taskOwner>>
    /\ Persist

(***************************************************************************)
(* Authentication.                                                         *)
(***************************************************************************)
MinPasswordLength == 4

\* users.find(u => u.username.toLowerCase() === authUsername.toLowerCase())
FindUser(us, username) ==
    LET hits == {i \in 1..Len(us) :
                    ToLowerCase(us[i].username) = ToLowerCase(username)}
    IN  IF hits = {} THEN Null ELSE Some(us[FirstIndex(hits)])

\* What handleSignup answers with: "" when it creates the account.
SignupError(us, username, password) ==
    IF ~TruthyStr(Trim(username)) \/ ~TruthyStr(Trim(password))
        THEN "Username and password required"
    ELSE IF Includes(username, <<" ">>)
        THEN "Username cannot contain spaces"
    ELSE IF Len(password) < MinPasswordLength
        THEN "Password must be at least 4 characters"
    ELSE IF FindUser(us, username) # Null
        THEN "Username already exists"
    ELSE ""

\* What handleLogin answers with: "" when it signs the user in.
LoginError(us, username, password) ==
    IF ~TruthyStr(Trim(username)) \/ ~TruthyStr(Trim(password))
        THEN "Username and password required"
    ELSE IF \/ FindUser(us, username) = Null
            \/ FindUser(us, username)[1].passwordHash # simpleHash(password)
        THEN "Invalid username or password"
    ELSE ""

\* setCurrentUser(cu) followed by the reload effect and the persisting effects.
SwitchUser(cu) ==
    /\ currentUser' = cu
    /\ tasks' = Reloaded(cu).tasks
    /\ categories' = Reloaded(cu).categories
    /\ archivedTasks' = Reloaded(cu).archivedTasks
    /\ archivedCategories' = Reloaded(cu).archivedCategories
    /\ Persist

\* Typing the credentials on the auth page and pressing Create Account.
handleSignup(username, password) ==
    /\ ~LoggedIn
    /\ IF SignupError(users, username, password) # ""
        THEN /\ authError' = SignupError(users, username, password)
             /\ authUsername' = username
             /\ authPassword' = password
             /\ UNCHANGED <<users, currentUser, storage, repoVars, now>>
        ELSE /\ Len(users) < MaxUsers
             /\ LET newUser == [id |-> now + 1, username |-> Trim(username),
                                passwordHash |-> simpleHash(password),
                                createdAt |-> now + 1]
                IN  /\ users' = Append(users, newUser)
                    /\ SwitchUser(Some(newUser))
             /\ now' = now + 1
             /\ authUsername' = EmptyStr
             /\ authPassword' = EmptyStr
             /\ authError' = ""
    /\ UNCHANGED <<fileVars, sheetVars>>
    /\ UNCHANGED <<viewVars, undoVars, toastVars, histVars>>

\* Typing the credentials on the auth page and pressing Sign In.
handleLogin(username, password) ==
    /\ ~LoggedIn
    /\ IF LoginError(users, username, password) # ""
        THEN /\ authError' = LoginError(users, username, password)
             /\ authUsername' = username
             /\ authPassword' = password
             /\ UNCHANGED <<currentUser, storage, repoVars>>
        ELSE /\ SwitchUser(FindUser(users, username))
             /\ authUsername' = EmptyStr
             /\ authPassword' = EmptyStr
             /\ authError' = ""
    /\ UNCHANGED <<fileVars, sheetVars>>
    /\ UNCHANGED <<users, now, viewVars, undoVars, toastVars, histVars>>

handleLogout ==
    /\ LoggedIn
    /\ SwitchUser(Null)
    /\ UNCHANGED <<fileVars, sheetVars>>
    /\ UNCHANGED <<users, authUsername, authPassword, authError, viewVars,
                   undoVars, toastVars, now, histVars>>

(***************************************************************************)
(* Specifications.                                                         *)
(***************************************************************************)
\* One signed-in session: spaces and objectives are created, archived,
\* restored, purged and undone, in the list view and in the archive view.
Next ==
    \/ \E textInput \in CategoryInputs : AddCategory(textInput)
    \/ \E textInput \in TaskInputs, c \in SelectableCategories : AddTask(textInput, c)
    \/ \E id \in TaskIds : deleteTask(id)
    \/ undoDelete
    \/ \E cat \in Range(categories) : deleteCategory(cat)
    \/ \E i \in 1..MaxLen : restoreTaskFromArchive(i)
    \/ \E cat \in Range(archivedCategories) : restoreCategoryFromArchive(cat)
    \/ \E id \in TaskIds : permanentlyDeleteTask(id)
    \/ \E cat \in Range(archivedCategories) : permanentlyDeleteCategory(cat)
    \/ \E value \in {All, Archive} : setActiveCategory(value)
    \/ exportTasks(FALSE)
    \/ DismissToast
    \/ ToastTimeout

Spec == Init /\ [][Next]_vars

\* One signed-in session that works from backups: the objectives come from
\* imported files, and spaces and objectives are archived between imports,
\* each step taken before the toast of the step before it has timed out.
NextBackup ==
    \/ AddCategory(W)
    \/ \E id \in TaskIds : deleteTask(id)
    \/ \E cat \in Range(categories) : deleteCategory(cat)
    \/ \E file \in BackupFiles : importTasks(file)

SpecBackup == Init /\ [][NextBackup]_vars

\* Accounts taking turns in one browser: sign up, sign in, sign out, and the
\* deletions and restores of whoever is signed in.
NextSwitch ==
    \/ \E u \in UsernameInputs, p \in PasswordInputs : handleSignup(u, p)
    \/ \E u \in UsernameInputs, p \in PasswordInputs : handleLogin(u, p)
    \/ handleLogout
    \/ AddCategory(W)
    \/ AddTask(<<"a">>, DefaultSelectedCategory)
    \/ \E id \in TaskIds : deleteTask(id)
    \/ \E cat \in Range(categories) : deleteCategory(cat)
    \/ undoDelete
    \/ exportTasks(FALSE)
    \/ DismissToast
    \/ ToastTimeout

SpecSwitch == InitFresh /\ [][NextSwitch]_vars

\* The auth page alone: visitors create accounts, sign in and sign out.
NextAuth ==
    \/ \E u \in AuthUsernames, p \in AuthPasswords : handleSignup(u, p)
    \/ \E u \in AuthUsernames, p \in AuthPasswords : handleLogin(u, p)
    \/ handleLogout

SpecAuth == InitFresh /\ [][NextAuth]_vars

\* The files imported while toasts come and go: one JSON.parse rejects and
\* one that holds an empty list of objectives.
ToastFiles ==
    {[parse |-> "error", tasks |-> Missing, categories |-> Missing],
     [parse |-> "object", tasks |-> Array(<<>>), categories |-> Missing]}

\* One signed-in session in which every handler that shows a toast is used,
\* each at any moment before or after the timer of the toast before it ran.
NextToast ==
    \/ \E id \in TaskIds : deleteTask(id)
    \/ \E cat \in Range(categories) : deleteCategory(cat)
    \/ undoDelete
    \/ \E i \in 1..MaxLen : restoreTaskFromArchive(i)
    \/ \E cat \in Range(archivedCategories) : restoreCategoryFromArchive(cat)
    \/ \E id \in TaskIds : permanentlyDeleteTask(id)
    \/ \E cat \in Range(archivedCategories) : permanentlyDeleteCategory(cat)
    \/ \E value \in {All, Archive} : setActiveCategory(value)
    \/ exportTasks(FALSE)
    \/ \E file \in ToastFiles : importTasks(file)
    \/ DismissToast
    \/ ToastTimeout

SpecToast == InitStored /\ [][NextToast]_vars

\* Two accounts taking turns on one browser that holds the objectives of an
\* earlier session: each signs up or in, adds, dates and archives objectives,
\* archives spaces, and signs out.
NextPersist ==
    \/ \E u \in UsernameInputs, p \in PasswordInputs : handleSignup(u, p)
    \/ \E u \in UsernameInputs, p \in PasswordInputs : handleLogin(u, p)
    \/ handleLogout
    \/ AddTask(<<"a">>, DefaultSelectedCategory)
    \/ \E id \in TaskIds, d \in DueDates :
            /\ id \in Ids(tasks)
            /\ EditTask(id, <<"b">>, FindTask(tasks, id)[1].category, Some(d))
    \/ \E id \in TaskIds : deleteTask(id)
    \/ \E cat \in Range(categories) : deleteCategory(cat)

SpecPersist == InitStored /\ [][NextPersist]_vars

\* One signed-in session on the objectives of an earlier one, the bottom
\* sheet used one handler at a time: it is opened, typed into, saved and
\* closed, and each deferred reset runs at any moment after its close.
NextSheet ==
    \/ openAddSheet
    \/ \E id \in TaskIds : openEditSheet(id)
    \/ \E id \in TaskIds : openViewSheet(id)
    \/ openAddCategorySheet
    \/ \E value \in EditInputs : setTextInput(value)
    \/ closeSheet
    \/ SheetReset
    \/ handleSave

SpecSheet == InitStored /\ [][NextSheet]_vars

\* The backups imported while a space is viewed: they hold spaces and no
\* objectives.
FilterFiles ==
    {file \in BackupFiles :
        file.parse = "object" /\ file.tasks = Missing /\ file.categories.state = "array"}

\* Sessions that move between the views of the spaces while spaces are
\* archived and restored, backups are imported and the account is switched.
NextFilter ==
    \/ \E value \in {All, Archive} \cup Range(categories) : setActiveCategory(value)
    \/ \E cat \in Range(categories) : deleteCategory(cat)
    \/ undoDelete
    \/ \E file \in FilterFiles : importTasks(file)
    \/ \E u \in UsernameInputs, p \in PasswordInputs : handleSignup(u, p)
    \/ \E u \in UsernameInputs, p \in PasswordInputs : handleLogin(u, p)
    \/ handleLogout

SpecFilter == InitStored /\ [][NextFilter]_vars

\* One signed-in session on the objectives of an earlier one: objectives are
\* added, completed, edited and archived.
NextTasks ==
    \/ \E textInput \in TaskInputs, c \in SelectableCategories : AddTask(textInput, c)
    \/ \E id \in TaskIds : toggleComplete(id)
    \/ \E id \in TaskIds : deleteTask(id)
    \/ \E id \in TaskIds, textInput \in EditInputs, c \in Range(categories),
          d \in DueDates :
            EditTask(id, textInput, c, Some(d))
    \/ \E id \in TaskIds, d \in DueDates : updateTaskDate(id, d)

SpecTasks == InitStored /\ [][NextTasks]_vars

\* One signed-in session that sorts its objectives by hand, in the full list
\* and while a space or a search narrows it.
NextReorder ==
    \/ \E c \in SelectableCategories : AddTask(<<"a">>, c)
    \/ \E id \in TaskIds, c \in Range(categories) : EditTask(id, <<"b">>, c, Null)
    \/ \E value \in {All} \cup Range(categories) : setActiveCategory(value)
    \/ \E id \in TaskIds : toggleComplete(id)
    \/ \E value \in SearchInputs : setSearchQuery(value)
    \/ \E newOrder \in Reorderings(filteredTasks) : onReorder(newOrder)

SpecReorder == InitStored /\ [][NextReorder]_vars

\* Choosing, in the file dialog of the import button, the backup kept last.
ImportDownload == download # Null /\ importTasks(Parse(download[1]))

\* One signed-in session that keeps a backup and comes back to it: spaces
\* and objectives are made and archived, objectives are edited, a backup is
\* kept, and the backup kept last is imported.
NextRoundTrip ==
    \/ AddCategory(W)
    \/ AddTask(<<"a">>, DefaultSelectedCategory)
    \/ \E id \in TaskIds, d \in DueDates :
            EditTask(id, <<"b">>, FindTask(tasks, id)[1].category, Some(d))
    \/ \E id \in TaskIds : deleteTask(id)
    \/ \E cat \in Range(categories) : deleteCategory(cat)
    \/ exportTasks(TRUE)
    \/ ImportDownload

SpecRoundTrip == Init /\ [][NextRoundTrip]_vars


(***************************************************************************)
(* Properties.                                                             *)
(***************************************************************************)

\* C1: every task of the active task list has a category that is a name of
\* the active category list.
C1_TaskCategoryIsActive ==
    \A i \in 1..Len(tasks) : tasks[i].category \in Range(categories)

\* C2: no task id is both in the active and in the archived task list, and
\* no category name is both in the active and in the archived category list.
C2_ActiveArchivedDisjoint ==
    /\ Ids(tasks) \cap Ids(archivedTasks) = {}
    /\ Range(categories) \cap Range(archivedCategories) = {}

PurgedStayAbsent ==
    /\ purgedTasks \cap (Ids(tasks) \cup Ids(archivedTasks)) = {}
    /\ purgedCategories \cap (Range(categories) \cup Range(archivedCategories)) = {}

IsPurge ==
    \/ \E id \in TaskIds : permanentlyDeleteTask(id)
    \/ \E cat \in Range(archivedCategories) : permanentlyDeleteCategory(cat)

\* C3: a purged entry is in neither its active nor its archived collection,
\* from the purge on and whatever undo or restore follows, until it is created
\* or imported again; and a purge leaves the undo slot as it was.
C3_PurgeIsIrreversible ==
    [][PurgedStayAbsent' /\ (IsPurge => UNCHANGED undoVars)]_vars

AtMostOnePending == lastDeletedTask = Null \/ lastDeletedCategory = Null

\* What restoring the deletion made last amounts to: that entry is active again
\* and archived no more, and the archive of the other kind is untouched.
RestoresRecent ==
    IF recent.kind = "task"
        THEN /\ recent.task[1] \in Range(tasks')
             /\ recent.task[1].id \notin Ids(archivedTasks')
             /\ archivedCategories' = archivedCategories
        ELSE /\ recent.name \in Range(categories')
             /\ recent.name \notin Range(archivedCategories')
             /\ archivedTasks' = archivedTasks

\* C4: the undo buffer holds at most one pending deletion, a task or a
\* category, and undo restores the deletion made last.
C4_SingleSlotUndo ==
    [][/\ AtMostOnePending'
       /\ (undoDelete /\ recent.kind # "none") => RestoresRecent]_vars

\* The slot the RESTORE button acts on: undoDelete looks at the task first.
OfferedSlot == IF lastDeletedTask # Null THEN "task" ELSE "category"

\* C5: once the offer for a deletion was dismissed or has timed out, no toast
\* offers RESTORE for that deletion any more.
C5_LapsedOfferIsGone == RestoreOffered => OfferedSlot \notin lapsed

\* C6: undo right after deleteTask puts the task, with every field as it was,
\* back into the active list, takes it out of the archived list and leaves
\* nothing pending in the undo slot.
C6_DeleteThenUndo ==
    [][(undoDelete /\ recent.kind = "task") =>
            /\ recent.task[1] \in Range(tasks')
            /\ recent.task[1].id \notin Ids(archivedTasks')
            /\ lastDeletedTask' = Null
            /\ lastDeletedCategory' = Null]_vars

\* The fallback as the specification words it: the first active category
\* other than name, "General" when there is none.
FirstOtherOrGeneral(name) ==
    IF \A i \in 1..Len(categories) : categories[i] = name
        THEN General
        ELSE categories[CHOOSE i \in 1..Len(categories) :
                            /\ categories[i] # name
                            /\ \A j \in 1..(i - 1) : categories[j] = name]

\* The categories other than name, in their order.
RECURSIVE Others(_, _)
Others(cs, name) ==
    IF cs = <<>> THEN <<>>
    ELSE IF Head(cs) = name THEN Others(Tail(cs), name)
    ELSE <<Head(cs)>> \o Others(Tail(cs), name)

DeleteCategoryEffect(name) ==
    /\ categories' = Others(categories, name)
    /\ archivedCategories' = <<name>> \o archivedCategories
    /\ Len(tasks') = Len(tasks)
    /\ \A i \in 1..Len(tasks) :
        tasks'[i] =
            IF tasks[i].category = name
                THEN [tasks[i] EXCEPT !.category = FirstOtherOrGeneral(name)]
                ELSE tasks[i]
    /\ archivedTasks' = archivedTasks

\* C7: deleteCategory(name) takes name out of the active categories, puts it
\* at the front of the archived ones and moves every task of name to the first
\* other active category, or to "General" when there is none; nothing else of
\* the tasks changes.
C7_DeleteCategoryCascades ==
    [][\A name \in Range(categories) :
            deleteCategory(name) => DeleteCategoryEffect(name)]_vars

\* C8: whoever is signed in, the active and the archived tasks are tasks that
\* this user created.
C8_NoForeignTasks ==
    LoggedIn =>
        \A id \in Ids(tasks) \cup Ids(archivedTasks) :
            taskOwner[id] = currentUser[1].id

\* What the backup's field leaves of a collection when every field the
\* backup has replaces: a list never becomes null, so a field that is there
\* has to be an array.
ReplacedIfPresent(field, before, after) ==
    IF field.state = "missing"
        THEN after = before
        ELSE field.state = "array" /\ after = field.value

\* C9, as worded: a tasks or categories field the parsed backup has becomes
\* the collection, a collection whose field is missing stays, and the archived
\* collections stay.
C9_ImportReplacesPresentFields ==
    [][\A file \in BackupFiles :
            (importTasks(file) /\ file.parse = "object") =>
                /\ ReplacedIfPresent(file.tasks, tasks, tasks')
                /\ ReplacedIfPresent(file.categories, categories, categories')
                /\ archivedTasks' = archivedTasks
                /\ archivedCategories' = archivedCategories]_vars

\* What the backup's field leaves of a collection when only an array
\* replaces.
ReplacedIfArray(file, field, before, after) ==
    IF file.parse = "object" /\ field.state = "array"
        THEN after = field.value
        ELSE after = before

\* C9, amended: a tasks or categories field of the parsed backup that holds an
\* array becomes the collection; a collection whose field is missing or null
\* stays; the archived collections stay.
C9_ImportReplacesArrayFields ==
    [][\A file \in BackupFiles :
            importTasks(file) =>
                /\ ReplacedIfArray(file, file.tasks, tasks, tasks')
                /\ ReplacedIfArray(file, file.categories, categories, categories')
                /\ archivedTasks' = archivedTasks
                /\ archivedCategories' = archivedCategories]_vars

\* A backup with tasks only was imported over the spaces and the archived
\* entries that were there.
C9_PartialImportDone ==
    /\ toastMessage = Msg("Backup restored!")
    /\ tasks = <<BackupTaskA, BackupTaskB>>
    /\ categories = <<W>>
    /\ archivedCategories # <<>>

\* The files JSON.parse rejects.
MalformedFiles == {file \in BackupFiles : file.parse = "error"}

\* C10: importing a file that fails to parse shows "Invalid backup file" and
\* leaves the four collections as they were.
C10_MalformedImportChangesNothing ==
    [][\A file \in MalformedFiles :
            importTasks(file) =>
                /\ UNCHANGED repoVars
                /\ isToastActive'
                /\ toastMessage' = Msg("Invalid backup file")]_vars

\* The failure is on display over four collections that all hold entries.
C10_FailureReported ==
    /\ isToastActive
    /\ toastMessage = Msg("Invalid backup file")
    /\ tasks # <<>>
    /\ categories # <<>>
    /\ archivedTasks # <<>>
    /\ archivedCategories # <<>>

\* C11: importing the backup kept last, unmodified, makes the active tasks
\* and the active categories those of the state the backup was taken in,
\* element for element and in the same order.
C11_ExportImportRoundTrip ==
    [][ImportDownload =>
            /\ tasks' = exported[1].tasks
            /\ categories' = exported[1].categories]_vars

\* A backup holding a task with a due date was imported after that task had
\* been archived.
C11_BackupBroughtBack ==
    /\ toastMessage = Msg("Backup restored!")
    /\ download # Null
    /\ tasks # <<>>
    /\ tasks[1].dueDate # Null
    /\ tasks = exported[1].tasks
    /\ archivedTasks # <<>>

\* C12: saving a new task whose text is blank after trimming changes none
\* of the four collections; with any other text exactly one task, not
\* completed, is put in front of the active tasks, which stay as they were
\* and in their order behind it.
C12_CreateTaskPrepends ==
    [][\A textInput \in TaskInputs, c \in SelectableCategories :
            AddTask(textInput, c) =>
                IF Trim(textInput) = EmptyStr
                    THEN UNCHANGED repoVars
                    ELSE /\ Len(tasks') = Len(tasks) + 1
                         /\ Tail(tasks') = tasks
                         /\ Head(tasks').completed = FALSE
                         /\ Head(tasks').text = Trim(textInput)
                         /\ Head(tasks').id \notin Ids(tasks)
                         /\ UNCHANGED <<categories, archivedTasks,
                                        archivedCategories>>]_vars

\* A created task stands, not completed, in front of the task of the earlier
\* session, which is completed.
C12_CreatedInFront ==
    /\ Len(tasks) = 2
    /\ tasks[1].id = now
    /\ ~tasks[1].completed
    /\ tasks[2].id = StoredTask.id
    /\ tasks[2].completed

\* C13: the names in the active category list are pairwise distinct.
C13_CategoryNamesDistinct ==
    \A i, j \in 1..Len(categories) : categories[i] = categories[j] => i = j

\* The entry is first in the active collection and archived no more.
TaskRestoredInFront(task) ==
    /\ tasks' # <<>>
    /\ Head(tasks') = task
    /\ task.id \notin Ids(archivedTasks')

CategoryRestoredInFront(name) ==
    /\ categories' # <<>>
    /\ Head(categories') = name
    /\ name \notin Range(archivedCategories')

\* C14: a restore, from the archive view or by RESTORE on the toast, takes
\* the entry out of the archived collection and puts it at the front of the
\* active one.
C14_RestorePutsInFront ==
    [][/\ \A i \in 1..Len(archivedTasks) :
            restoreTaskFromArchive(i) => TaskRestoredInFront(archivedTasks[i])
       /\ \A cat \in Range(archivedCategories) :
            restoreCategoryFromArchive(cat) => CategoryRestoredInFront(cat)
       /\ (undoDelete /\ lastDeletedTask # Null) =>
            TaskRestoredInFront(lastDeletedTask[1])
       /\ (undoDelete /\ lastDeletedTask = Null) =>
            CategoryRestoredInFront(lastDeletedCategory[1])]_vars

\* The tasks with another id, in their order.
RECURSIVE TasksOtherThan(_, _)
TasksOtherThan(ts, id) ==
    IF ts = <<>> THEN <<>>
    ELSE IF Head(ts).id = id THEN TasksOtherThan(Tail(ts), id)
    ELSE <<Head(ts)>> \o TasksOtherThan(Tail(ts), id)

\* The active task with this id.
ActiveTask(id) == tasks[CHOOSE i \in 1..Len(tasks) : tasks[i].id = id]

\* C15: deleteTask(id) takes the task with this id out of the active tasks,
\* puts it in front of the archived ones and records it for undo, and the
\* active tasks with another id stay as they were and in their order; for an
\* id no active task has, the four collections and the undo slots stay.
C15_DeleteTaskMovesById ==
    [][\A id \in TaskIds :
            deleteTask(id) =>
                IF id \in Ids(tasks)
                    THEN /\ tasks' = TasksOtherThan(tasks, id)
                         /\ archivedTasks' = <<ActiveTask(id)>> \o archivedTasks
                         /\ lastDeletedTask' = Some(ActiveTask(id))
                         /\ UNCHANGED <<categories, archivedCategories>>
                    ELSE UNCHANGED <<repoVars, undoVars>>]_vars

\* Of two tasks that read the same, one is archived and pending for undo and
\* the other is still active.
C15_TwinStaysActive ==
    /\ Len(tasks) = 1
    /\ Len(archivedTasks) = 1
    /\ tasks[1].text = archivedTasks[1].text
    /\ tasks[1].id # archivedTasks[1].id
    /\ lastDeletedTask = Some(archivedTasks[1])

\* An update of the task with this id: the list keeps its length and order,
\* every task keeps id, createdAt and completed, and a task with another id
\* keeps every field.
UpdateFrame(id) ==
    /\ Len(tasks') = Len(tasks)
    /\ \A i \in 1..Len(tasks) :
        /\ tasks'[i].id = tasks[i].id
        /\ tasks'[i].createdAt = tasks[i].createdAt
        /\ tasks'[i].completed = tasks[i].completed
        /\ tasks[i].id # id => tasks'[i] = tasks[i]

\* The step is an update of the task with this id.
IsUpdate(id) ==
    \/ \E textInput \in EditInputs, c \in Range(categories), d \in DueDates :
            EditTask(id, textInput, c, Some(d))
    \/ \E d \in DueDates : updateTaskDate(id, d)

TasksIn(cat) == {i \in 1..Len(tasks) : tasks[i].category = cat}

CompletedIn(cat) == {i \in TasksIn(cat) : tasks[i].completed}

\* C18: categoryStats has one entry per active category, in the order of the
\* list; for a category with n active tasks, k of them completed, the entry
\* has count n and progress 0 when n = 0 and 100 * k / n otherwise, which is
\* between 0 and 100.
C18_StatsPerCategory ==
    /\ Len(categoryStats) = Len(categories)
    /\ \A i \in 1..Len(categories) :
        LET stat == categoryStats[i]
            n == Cardinality(TasksIn(categories[i]))
            k == Cardinality(CompletedIn(categories[i]))
        IN  /\ stat.name = categories[i]
            /\ stat.count = n
            /\ stat.progress = IF n = 0 THEN Zero ELSE Quotient(100 * k, n)
            /\ stat.progress.den > 0
            /\ 0 <= stat.progress.num
            /\ stat.progress.num <= 100 * stat.progress.den

\* One space has two tasks, one of them completed, and stands at 50; the
\* other has none and stands at 0.
C18_HalfDone ==
    /\ Len(categories) = 2
    /\ categoryStats[1] = [name |-> W, count |-> 2, progress |-> [num |-> 50, den |-> 1]]
    /\ categoryStats[2] = [name |-> H, count |-> 0, progress |-> Zero]

\* C19: no two stored user records have usernames that are equal ignoring
\* letter case, whatever strings the visitors registered with.
C19_UsernamesUniqueIgnoringCase ==
    \A i, j \in 1..Len(users) :
        i # j => ToLowerCase(users[i].username) # ToLowerCase(users[j].username)

\* The records whose username is the given one ignoring letter case and that
\* were registered with the given password.
Registered(username, password) ==
    {i \in 1..Len(users) :
        /\ ToLowerCase(users[i].username) = ToLowerCase(username)
        /\ users[i].passwordHash = simpleHash(password)}

\* C20: a successful register signs the new record in, a rejected register or
\* sign-in leaves the session and the users table alone, logout empties the
\* session, and signing in with a registered user's name in any letter case
\* and that user's password succeeds and makes that user the session.
C20_SessionSetOnlyBySuccess ==
    [][ /\ \A u \in AuthUsernames, p \in AuthPasswords :
            /\ handleSignup(u, p) =>
                    IF SignupError(users, u, p) = ""
                        THEN /\ users' = Append(users, users'[Len(users')])
                             /\ currentUser' = Some(users'[Len(users')])
                        ELSE UNCHANGED <<currentUser, users>>
            /\ handleLogin(u, p) =>
                    /\ UNCHANGED users
                    /\ LoginError(users, u, p) # "" => UNCHANGED currentUser
                    /\ Registered(u, p) # {} =>
                            \E i \in Registered(u, p) : currentUser' = Some(users[i])
        /\ handleLogout => currentUser' = Null /\ UNCHANGED users ]_vars

\* C21: the only toast timer that can be pending is the one toastTimeoutRef
\* names, the one scheduled for the toast shown last: every timer scheduled
\* before it was cancelled or has run, so none is left to hide a later toast.
C21_OneTimerPending ==
    toastTimers = IF toastTimeoutRef = "live" THEN 1 ELSE 0

\* An objective was archived, and the toast of a later restore from the
\* archive is showing with its own timer pending.
C21_ToastAfterToast ==
    /\ lastDeletedTask # Null
    /\ isToastActive
    /\ toastMessage = Msg("Task restored")
    /\ toastTimers = 1

\* The four collections in memory.
Collections ==
    [tasks |-> tasks, categories |-> categories,
     archivedTasks |-> archivedTasks, archivedCategories |-> archivedCategories]

\* C22: after every action the texts under the signed-in user's keys read
\* back as the collections in memory; no action writes under the keys of a
\* user other than the one signed in after it; signing out leaves the
\* collections as they were under the keys of the user who signed out, and
\* signing in loads what is under the keys of the user who signed in.  Hence
\* logout followed by login of the same user brings back the collections of
\* the logout, whoever used the browser in between.
C22_PersistenceFollowsUser ==
    [][ /\ LoggedIn' =>
            /\ storage'[currentUser'[1].id] # Null
            /\ ParsedText(storage'[currentUser'[1].id][1]) = Collections'
        /\ \A u \in UserIds :
            (LoggedIn' => currentUser'[1].id # u) => storage'[u] = storage[u]
        /\ (LoggedIn /\ ~LoggedIn') =>
            ParsedText(storage'[currentUser[1].id][1]) = Collections
        /\ (~LoggedIn /\ LoggedIn') =>
            Collections' =
                IF storage[currentUser'[1].id] = Null THEN NoCollections
                ELSE ParsedText(storage[currentUser'[1].id][1]) ]_vars

\* The first account is signed in again after the second one was created and
\* used, and shows the dated objective and the archived space it left, next
\* to what the second account keeps under its own keys.
C22_BackAfterAnotherUser ==
    /\ Len(users) = 2
    /\ currentUser = Some(users[1])
    /\ storage[users[2].id] # Null
    /\ ParsedText(storage[users[2].id][1]).tasks # <<>>
    /\ tasks # <<>>
    /\ tasks[1].id < users[2].id
    /\ tasks[1].dueDate # Null
    /\ archivedCategories # <<>>

\* C23: the ids in the active task list are pairwise distinct.
C23_ActiveIdsDistinct ==
    \A i, j \in 1..Len(tasks) : i # j => tasks[i].id # tasks[j].id

\* C24: a save while the sheet is in the mode openEditSheet put it in leaves
\* the number of active tasks as it was and the ids in their places.
C24_EditSaveCreatesNoTask ==
    [][(handleSave /\ sheetMode = "EDIT_TASK") =>
            /\ Len(tasks') = Len(tasks)
            /\ \A i \in 1..Len(tasks) : tasks'[i].id = tasks[i].id]_vars

\* C25: while an account is signed in, the active filter is the all-tasks
\* value, the archive view or the name of a category of the active list.
C25_ActiveFilterValid ==
    LoggedIn => activeCategory \in {All, Archive} \cup Range(categories)

=============================================================================
